---- MODULE Spec2Model ----
(***************************************************************************)
(* A model of vmsh's hypervisor discovery (src/kvm/mod.rs), of its KVM_RUN *)
(* interceptor (src/wrap_syscall.rs), of its device (src/device/mod.rs)    *)
(* and of stage2's read_environment (src/stage2/src/cmd.rs).               *)
(*                                                                         *)
(* DiscSpec   : get_hypervisor applied to every bounded fd listing.        *)
(* Spec       : wait_for_ioctl and cont() against the running target.      *)
(* RunSpec    : wait_for_ioctl called again and again, the threads alive.  *)
(* FairSpec   : RunSpec with a controller that never stops.                *)
(* TraceeSpec : RunSpec with Tracees and the KvmRunWrapper come and gone.  *)
(* EintrSpec  : RunSpec with a waitpid that may answer EINTR.              *)
(* StatusSpec : process_status applied to every wait status.               *)
(* MemSpec    : Hypervisor::read and write for every transfer count.       *)
(* MmioSpec   : MmioRw::from and data() for every kvm_run page.            *)
(* DeviceSpec : Device::new for every list of mappings.                    *)
(* AttachSpec : attach (src/attach.rs) from get_hypervisor to pause().     *)
(* IoctlSpec  : Tracee::vm_ioctl_with_ref called on one Tracee after another.*)
(* EnvSpec    : read_environment for every bounded environ file.           *)
(***************************************************************************)
EXTENDS Integers, Sequences, FiniteSets, TLC

VARIABLES
    \* ---- discovery -------------------------------------------------------
    fds,        \* the target's fd listing, in the order handle.fds() yields it
    procOk,     \* [open, fds, maps]: which /proc reads of this run succeed
    disc,       \* what get_hypervisor returned ("none" before the call)
    \* ---- KvmRunWrapper ---------------------------------------------------
    threads,    \* KvmRunWrapper.threads: [is_running, in_syscall] per thread
    pc,         \* where the controller is: idle, syscall, waitpid, process, cont
    pos,        \* the position of the running for loop in threads
    status,     \* the WaitStatus waitpid_busy returned
    ret,        \* what the last wait_for_ioctl call returned
    out,        \* the last "kvm-run enter" / "kvm-run exit." line printed
    lastLabel,  \* per tid, the label printed before the one in out
    contRes,    \* what the last cont() call did
    \* ---- the target ------------------------------------------------------
    tgt,        \* per thread: its real run state and the stop it is at
    kvm_run,    \* the kvm_run page at vcpu_maps[0].start
    \* ---- functions checked on their own ----------------------------------
    arg,        \* the arguments and the environment's answers of the call
    res,        \* what the call returned ("none" before it)
    \* ---- ptrace handles on the target -------------------------------------
    trc         \* the KvmRunWrapper and the Tracees alive, and the tracer the
                \* kernel has on record for the target's main thread

discVars == <<fds, procOk, disc>>

icptVars == <<threads, pc, pos, status, ret, out, lastLabel, contRes, tgt, kvm_run>>

callVars == <<arg, res>>

\* everything the interceptor and the target leave alone
restVars == <<discVars, callVars, trc>>

vars == <<fds, procOk, disc, threads, pc, pos, status, ret, out, lastLabel, contRes,
          tgt, kvm_run, arg, res, trc>>

(***************************************************************************)
(* Bounds                                                                  *)
(***************************************************************************)
MaxFds == 4         \* longest fd listing
MaxVcpuIdx == 1     \* largest N of a well-formed anon_inode:kvm-vcpu:N link
NThreads == 2       \* threads of the target that attach_all_threads found
MaxSize == 8        \* largest size_of::<T>() of a Hypervisor::read or write
MaxMmioLen == 9     \* largest mmio.len a kvm_run page read from the target holds
MaxMappings == 2    \* longest list of mappings of a Hypervisor
MaxGpa == 2         \* largest guest-physical page a mapping is registered at
MaxEnvLen == 6      \* most bytes of /proc/<pid>/environ
MaxTracees == 2     \* most Tracees the controller tries to hold at once
MaxCalls == 3       \* most calls of vm_ioctl_with_ref followed

(***************************************************************************)
(* Link names.  A name is the sequence of its ':'-separated segments, a    *)
(* segment the sequence of its characters; the fixed words are kept as one *)
(* character each.                                                         *)
(***************************************************************************)
Digits == <<"0", "1", "2", "3", "4", "5", "6", "7", "8", "9">>

DigitVal(c) == (CHOOSE i \in 1..Len(Digits) : Digits[i] = c) - 1

IsDigit(c) == \E i \in 1..Len(Digits) : Digits[i] = c

VmName == << <<"anon_inode">>, <<"kvm-vm">> >>

VcpuName(last) == << <<"anon_inode">>, <<"kvm-vcpu">>, last >>

LinkNames ==
    {VmName}
    \cup {VcpuName(<<Digits[i + 1]>>) : i \in 0..MaxVcpuIdx}
    \cup {VcpuName(<<"x">>)}                  \* anon_inode:kvm-vcpu:x
    \cup {<< <<"socket">>, <<"[7]">> >>}      \* socket:[7]

RECURSIVE SeqsUpTo(_, _)
SeqsUpTo(S, n) ==
    IF n = 0 THEN {<<>>}
    ELSE LET shorter == SeqsUpTo(S, n - 1)
         IN  shorter \cup {Append(s, x) : s \in {q \in shorter : Len(q) = n - 1}, x \in S}

Listings == SeqsUpTo(LinkNames, MaxFds)

\* the fd number of the i-th entry of the listing (0, 1, 2 are the std streams)
FdNum(i) == i + 2

(***************************************************************************)
(* str::parse::<usize>: an optional '+', then one or more decimal digits.  *)
(***************************************************************************)
RECURSIVE DecimalValue(_, _)
DecimalValue(chars, acc) ==
    IF chars = <<>> THEN acc
    ELSE DecimalValue(Tail(chars), acc * 10 + DigitVal(Head(chars)))

ParseUsize(chars) ==
    LET body == IF chars # <<>> /\ Head(chars) = "+" THEN Tail(chars) ELSE chars
    IN  IF body # <<>> /\ \A i \in 1..Len(body) : IsDigit(body[i])
        THEN [ok |-> TRUE, val |-> DecimalValue(body, 0)]
        ELSE [ok |-> FALSE, val |-> 0]

\* name.starts_with("anon_inode:kvm-vcpu:")
IsVcpuName(name) ==
    Len(name) >= 3 /\ name[1] = <<"anon_inode">> /\ name[2] = <<"kvm-vcpu">>

\* name.rsplitn(2, ':')[0]: what follows the last ':'
LastPart(name) == name[Len(name)]

(***************************************************************************)
(* Vec::dedup_by_key: drops every element whose key equals the key of the  *)
(* element kept just before it.                                            *)
(***************************************************************************)
RECURSIVE DedupFrom(_, _)
DedupFrom(kept, rest) ==
    IF rest = <<>> THEN kept
    ELSE IF kept # <<>> /\ kept[Len(kept)].idx = Head(rest).idx
         THEN DedupFrom(kept, Tail(rest))
         ELSE DedupFrom(Append(kept, Head(rest)), Tail(rest))

\* no element dropped
NoDedup(vcpus) == vcpus

dedup_by_key(vcpus) == DedupFrom(<<>>, vcpus)

ErrFds == "cannot lookup file descriptors of process"
ErrParse == "cannot parse number"
ErrSameId == "found multiple vcpus with same id, assume multiple VMs in same hypervisor. This is not supported yet"
ErrOpen == "cannot open handle in proc"
ErrMaps == "cannot read process maps"
ErrNoVm == "no VMs found"
ErrMultiVm == "multiple VMs found, this is not supported yet."
ErrNoVcpu == "found KVM instance but no VCPUs"

Err(msg) == [ok |-> FALSE, err |-> msg]

\* the for loop of find_vm_fd over fds[i..]
RECURSIVE ScanFds(_, _, _, _)
ScanFds(listing, i, vm_fds, vcpu_fds) ==
    IF i > Len(listing) THEN [ok |-> TRUE, vm_fds |-> vm_fds, vcpus |-> vcpu_fds]
    ELSE LET name == listing[i]
         IN  IF name = VmName
             THEN ScanFds(listing, i + 1, Append(vm_fds, FdNum(i)), vcpu_fds)
             ELSE IF IsVcpuName(name)
             THEN LET idx == ParseUsize(LastPart(name))
                  IN  IF ~idx.ok THEN Err(ErrParse)
                      ELSE ScanFds(listing, i + 1, vm_fds,
                                   Append(vcpu_fds, [idx |-> idx.val, fd_num |-> FdNum(i)]))
             ELSE ScanFds(listing, i + 1, vm_fds, vcpu_fds)

find_vm_fd(listing, ok) ==
    IF ~ok.fds THEN Err(ErrFds)
    ELSE LET scan == ScanFds(listing, 1, <<>>, <<>>)
         IN  IF ~scan.ok THEN scan
             ELSE LET deduped == dedup_by_key(scan.vcpus)
                  IN  IF Len(scan.vcpus) # Len(deduped) THEN Err(ErrSameId)
                      ELSE [ok |-> TRUE, vm_fds |-> scan.vm_fds, vcpus |-> deduped]

\* the checks of get_hypervisor without the one on vm_fds.len() > 1
CheckKvmFdsNoMulti(found) ==
    IF found.vm_fds = <<>> THEN Err(ErrNoVm)
    ELSE IF found.vcpus = <<>> THEN Err(ErrNoVcpu)
    ELSE [ok |-> TRUE, vm_fd |-> found.vm_fds[1], vcpus |-> found.vcpus]

\* the three checks of get_hypervisor on what find_vm_fd returned
CheckKvmFds(found) ==
    IF found.vm_fds = <<>> THEN Err(ErrNoVm)
    ELSE IF Len(found.vm_fds) > 1 THEN Err(ErrMultiVm)
    ELSE IF found.vcpus = <<>> THEN Err(ErrNoVcpu)
    ELSE [ok |-> TRUE, vm_fd |-> found.vm_fds[1], vcpus |-> found.vcpus]

get_hypervisor(listing, ok) ==
    IF ~ok.open THEN Err(ErrOpen)
    ELSE LET found == find_vm_fd(listing, ok)
         IN  IF ~found.ok THEN found
             ELSE IF ~ok.maps THEN Err(ErrMaps)
             ELSE CheckKvmFds(found)

(***************************************************************************)
(* The KVM_RUN interceptor (wrap_syscall.rs) and the threads it traces.    *)
(***************************************************************************)
Tids == 1..NThreads

SYS_ioctl == 16
KVM_RUN == 44672
KVM_EXIT_MMIO == 6

ExitReasons == {KVM_EXIT_MMIO, 2}       \* KVM_EXIT_MMIO, KVM_EXIT_IO

SyscallKinds == {"kvm_run", "ioctl", "other"}

\* Regs::get_syscall_params on the registers a thread shows at its stop:
\* ioctl(fd, KVM_RUN), ioctl(fd, KVM_CHECK_EXTENSION), read(2), or orig_rax = -1
get_syscall_params(sc) ==
    CASE sc = "kvm_run" -> [syscall_nr |-> SYS_ioctl, ioctl_request |-> KVM_RUN]
      [] sc = "ioctl"   -> [syscall_nr |-> SYS_ioctl, ioctl_request |-> 44547]
      [] sc = "other"   -> [syscall_nr |-> 0, ioctl_request |-> 0]
      [] OTHER          -> [syscall_nr |-> -1, ioctl_request |-> 0]

None == [some |-> FALSE]

Some(v) == [some |-> TRUE, val |-> v]

\* a u64 held as hi * 2^20 + lo, 0 <= lo < 2^20
U64(h, l) == [hi |-> h, lo |-> l]

\* the data KVM leaves for a 4-byte guest write of 0xDEADBEEF
DeadBeef == <<239, 190, 173, 222, 0, 0, 0, 0>>

\* kvm_run.mmio as KVM fills it in: a dword written to 0xC000_0000
KernelMmio == [phys_addr |-> U64(3072, 0), data |-> DeadBeef, len |-> 4, is_write |-> 1]

\* the kvm_run page: exit_reason, and the mmio member of its union
KvmRun(reason, mmio) == [exit_reason |-> reason, mmio |-> mmio]

\* MmioRw::new, with is_write read as raw.is_write == 1
MmioRwNewWriteIsOne(raw) ==
    [addr |-> raw.phys_addr, is_write |-> raw.is_write = 1, data |-> raw.data, len |-> raw.len]

MmioRw_new(raw) ==
    [addr |-> raw.phys_addr, is_write |-> raw.is_write # 0, data |-> raw.data, len |-> raw.len]

MmioRw_from(page) ==
    IF page.exit_reason = KVM_EXIT_MMIO THEN Some(MmioRw_new(page.mmio)) ELSE None

\* MmioRw::data: &self.data[..self.len] panics when len is past the array
MmioRw_data(m) ==
    IF m.len > Len(m.data)
    THEN [panic |-> TRUE, bytes |-> <<>>]
    ELSE [panic |-> FALSE, bytes |-> SubSeq(m.data, 1, m.len)]

Thread_new == [is_running |-> FALSE, in_syscall |-> FALSE]

toggle_in_syscall(thread) == [thread EXCEPT !.in_syscall = ~thread.in_syscall]

(***************************************************************************)
(* Wait statuses (nix::sys::wait::WaitStatus).                             *)
(***************************************************************************)
StatusKinds == {"Exited", "Signaled", "Stopped", "PtraceEvent", "PtraceSyscall",
                "Continued", "StillAlive"}

WaitStatus(kind, pid) == [kind |-> kind, pid |-> pid]

NoStatus == WaitStatus("StillAlive", 0)

\* the status waitpid(tid, WNOHANG) reports for the stop thread t is at
StatusOf(target, t) ==
    CASE target[t].stop \in {"enter", "exit", "signal"} -> WaitStatus("Stopped", t)
      [] target[t].stop = "exited"   -> WaitStatus("Exited", t)
      [] target[t].stop = "signaled" -> WaitStatus("Signaled", t)
      [] OTHER                       -> NoStatus

(***************************************************************************)
(* Results.  wait_for_ioctl returns Result<()>; mmio tells whether it      *)
(* printed a "kvm exit" line for an Option<MmioRw> that was Some.          *)
(***************************************************************************)
NoRet == [state |-> "none", mmio |-> FALSE, tid |-> 0, err |-> ""]

RetOk(mmio, tid) == [state |-> "ok", mmio |-> mmio.some, tid |-> tid, err |-> ""]

RetErr(msg) == [state |-> "err", mmio |-> FALSE, tid |-> 0, err |-> msg]

NoOut == [tid |-> 0, label |-> "none", stop |-> "none"]

\* PTRACE_GETREGS, PTRACE_SYSCALL and PTRACE_CONT need the tracee in ptrace-stop
InPtraceStop(target, t) == target[t].st = "stopped"

\* the Stopped arm, were in_syscall toggled for ioctl(KVM_RUN) alone
ProcessStoppedKvmRunOnly(pid, thrs, target, page) ==
    IF ~InPtraceStop(target, pid)
    THEN [ret |-> RetErr("cannot syscall results"), threads |-> thrs, label |-> "none"]
    ELSE LET regs == get_syscall_params(target[pid].sc)
         IN  IF regs.syscall_nr # SYS_ioctl \/ regs.ioctl_request # KVM_RUN
             THEN [ret |-> RetOk(None, pid), threads |-> thrs, label |-> "none"]
             ELSE LET toggled == [thrs EXCEPT ![pid] = toggle_in_syscall(thrs[pid])]
                  IN  [ret     |-> RetOk(MmioRw_from(page), pid),
                       threads |-> toggled,
                       label   |-> IF toggled[pid].in_syscall THEN "enter" ELSE "exit"]

\* process_status, the WaitStatus::Stopped arm for the thread found in threads
ProcessStopped(pid, thrs, target, page) ==
    IF ~InPtraceStop(target, pid)
    THEN [ret |-> RetErr("cannot syscall results"), threads |-> thrs, label |-> "none"]
    ELSE LET regs == get_syscall_params(target[pid].sc)
         IN  IF regs.syscall_nr # SYS_ioctl
             THEN [ret |-> RetOk(None, pid), threads |-> thrs, label |-> "none"]
             ELSE LET toggled == [thrs EXCEPT ![pid] = toggle_in_syscall(thrs[pid])]
                  IN  IF regs.ioctl_request = KVM_RUN
                      THEN [ret     |-> RetOk(MmioRw_from(page), pid),
                            threads |-> toggled,
                            label   |-> IF toggled[pid].in_syscall THEN "enter" ELSE "exit"]
                      ELSE [ret |-> RetOk(None, pid), threads |-> toggled, label |-> "none"]

Unchanged(r, thrs) == [ret |-> r, threads |-> thrs, label |-> "none"]

\* the arms that bail, were PtraceSyscall a no-op like Continued
UnexpectedStatusIgnored(stat, thrs) ==
    IF stat.kind = "PtraceSyscall" THEN Unchanged(RetOk(None, 0), thrs)
    ELSE Unchanged(RetErr("unexpected"), thrs)

\* process_status, the arms that bail
UnexpectedStatus(stat, thrs) ==
    CASE stat.kind = "PtraceEvent" -> Unchanged(RetErr("got unexpected ptrace event"), thrs)
      [] stat.kind = "PtraceSyscall" ->
            Unchanged(RetErr("got unexpected ptrace syscall event"), thrs)
      [] stat.kind = "StillAlive" ->
            Unchanged(RetErr("got unexpected still-alive waitpid() event"), thrs)
      [] stat.kind = "Exited" -> Unchanged(RetErr("process exited with"), thrs)
      [] stat.kind = "Signaled" -> Unchanged(RetErr("process was stopped by signal"), thrs)

process_status(stat, thrs, target, page) ==
    CASE stat.kind = "Continued" -> Unchanged(RetOk(None, 0), thrs)
      [] stat.kind = "Stopped" ->
            IF stat.pid \in DOMAIN thrs
            THEN ProcessStopped(stat.pid, thrs, target, page)
            ELSE Unchanged(RetErr("received stop for unkown process"), thrs)
      [] OTHER -> UnexpectedStatus(stat, thrs)

(***************************************************************************)
(* The target's threads.  st: stopped (in ptrace-stop), running or dead;   *)
(* how: the request that resumed it last; insys: it is inside a syscall;   *)
(* sc: the syscall its registers show; stop: the stop it reached last;     *)
(* pending: waitpid has not reported that stop yet.                        *)
(***************************************************************************)
Attached ==
    [st |-> "stopped", how |-> "syscall", insys |-> FALSE, sc |-> "none",
     stop |-> "attach", pending |-> FALSE]

\* a thread resumed by PTRACE_SYSCALL enters a syscall
SyscallEnter(t) ==
    /\ tgt[t].st = "running" /\ tgt[t].how = "syscall" /\ ~tgt[t].insys
    /\ \E sc \in SyscallKinds :
          tgt' = [tgt EXCEPT ![t] = [@ EXCEPT !.st = "stopped", !.insys = TRUE, !.sc = sc,
                                                !.stop = "enter", !.pending = TRUE]]
    /\ UNCHANGED <<restVars, threads, pc, pos, status, ret, out, lastLabel, contRes, kvm_run>>

\* ... and leaves it; KVM_RUN leaves the exit reason in the kvm_run page
SyscallExit(t) ==
    /\ tgt[t].st = "running" /\ tgt[t].how = "syscall" /\ tgt[t].insys
    /\ tgt' = [tgt EXCEPT ![t] = [@ EXCEPT !.st = "stopped", !.insys = FALSE,
                                            !.stop = "exit", !.pending = TRUE]]
    /\ IF tgt[t].sc = "kvm_run"
       THEN \E r \in ExitReasons : kvm_run' = [kvm_run EXCEPT !.exit_reason = r]
       ELSE UNCHANGED kvm_run
    /\ UNCHANGED <<restVars, threads, pc, pos, status, ret, out, lastLabel, contRes>>

\* signal-delivery-stop, on the way back to user mode: the registers show the
\* ioctl the signal interrupted, or no ioctl.  A thread resumed by PTRACE_CONT
\* has run any syscalls unobserved before.
SignalStop(t) ==
    /\ tgt[t].st = "running"
    /\ tgt[t].how = "cont" \/ ~tgt[t].insys
    /\ \E sc \in (IF tgt[t].how = "cont" THEN {"kvm_run", "ioctl"} ELSE {tgt[t].sc})
                 \cup {"none"} :
          tgt' = [tgt EXCEPT ![t] = [@ EXCEPT !.st = "stopped", !.how = "syscall",
                                                !.insys = FALSE, !.sc = sc,
                                                !.stop = "signal", !.pending = TRUE]]
    /\ IF tgt[t].how = "cont" /\ tgt[t].insys /\ tgt[t].sc = "kvm_run"
       THEN \E r \in ExitReasons : kvm_run' = [kvm_run EXCEPT !.exit_reason = r]
       ELSE UNCHANGED kvm_run
    /\ UNCHANGED <<restVars, threads, pc, pos, status, ret, out, lastLabel, contRes>>

Dead(how) ==
    [st |-> "dead", how |-> "syscall", insys |-> FALSE, sc |-> "none",
     stop |-> how, pending |-> TRUE]

\* the thread exits or is killed, running or stopped
ThreadDie(t) ==
    /\ tgt[t].st \in {"running", "stopped"}
    /\ \E how \in {"exited", "signaled"} : tgt' = [tgt EXCEPT ![t] = Dead(how)]
    /\ UNCHANGED <<restVars, threads, pc, pos, status, ret, out, lastLabel, contRes, kvm_run>>

(***************************************************************************)
(* KvmRunWrapper                                                           *)
(***************************************************************************)
NoCont == [state |-> "none", issued |-> {}]

NextIdx(i, after) ==
    IF i < NThreads THEN <<pc, i + 1>> ELSE <<after, 1>>

\* ptrace::Thread::syscall and ::cont on a thread in ptrace-stop: it runs
\* again, and the stop it was at is no longer reported
Resumed(target, t, how) ==
    [target EXCEPT ![t] =
        [@ EXCEPT !.st = "running", !.how = how, !.pending = FALSE, !.stop = "none",
                  !.sc = IF target[t].insys
                            \/ (target[t].stop \in {"exit", "signal"} /\ @ # "other")
                         THEN @ ELSE "none"]]

WaitForIoctlCall ==
    /\ pc = "idle"
    /\ pc' = "syscall" /\ pos' = 1
    /\ ret' = NoRet /\ out' = NoOut /\ contRes' = NoCont
    /\ UNCHANGED <<restVars, threads, status, lastLabel, tgt, kvm_run>>

\* that turn of the loop, were is_running not set after PTRACE_SYSCALL
WaitForIoctlSyscallFlagUnset ==
    /\ pc = "syscall"
    /\ IF threads[pos].is_running
       THEN /\ pc' = NextIdx(pos, "waitpid")[1] /\ pos' = NextIdx(pos, "waitpid")[2]
            /\ UNCHANGED <<threads, tgt, ret>>
       ELSE IF InPtraceStop(tgt, pos)
       THEN /\ tgt' = Resumed(tgt, pos, "syscall")
            /\ pc' = NextIdx(pos, "waitpid")[1] /\ pos' = NextIdx(pos, "waitpid")[2]
            /\ UNCHANGED <<threads, ret>>
       ELSE /\ ret' = RetErr("PTRACE_SYSCALL failed")
            /\ pc' = "idle" /\ pos' = 1
            /\ UNCHANGED <<threads, tgt>>
    /\ UNCHANGED <<restVars, status, out, lastLabel, contRes, kvm_run>>

\* wait_for_ioctl, one turn of: for thread in &mut self.threads
WaitForIoctlSyscall ==
    /\ pc = "syscall"
    /\ IF threads[pos].is_running
       THEN /\ pc' = NextIdx(pos, "waitpid")[1] /\ pos' = NextIdx(pos, "waitpid")[2]
            /\ UNCHANGED <<threads, tgt, ret>>
       ELSE IF InPtraceStop(tgt, pos)
       THEN /\ tgt' = Resumed(tgt, pos, "syscall")
            /\ threads' = [threads EXCEPT ![pos].is_running = TRUE]
            /\ pc' = NextIdx(pos, "waitpid")[1] /\ pos' = NextIdx(pos, "waitpid")[2]
            /\ UNCHANGED ret
       ELSE /\ ret' = RetErr("PTRACE_SYSCALL failed")
            /\ pc' = "idle" /\ pos' = 1
            /\ UNCHANGED <<threads, tgt>>
    /\ UNCHANGED <<restVars, status, out, lastLabel, contRes, kvm_run>>

\* collecting the stop and issuing PTRACE_SYSCALL at once
CollectAndResume(target, t) == Resumed(target, t, "syscall")

\* what collecting the pending stop of thread t leaves of the target

Collect(target, t) ==
    [target EXCEPT ![t] = [@ EXCEPT !.pending = FALSE,
                                    !.stop = IF target[t].st = "dead" THEN "exited" ELSE @]]

\* the thread polled after thread i when waitpid said StillAlive
NextPolled(i) == (i % NThreads) + 1

\* waitpid_busy, were is_running left as it is when a status is returned
WaitpidBusyFlagKept ==
    /\ pc = "waitpid"
    /\ IF tgt[pos].pending
       THEN /\ status' = StatusOf(tgt, pos)
            /\ tgt' = Collect(tgt, pos)
            /\ pc' = "process"
            /\ UNCHANGED <<pos, ret, threads>>
       ELSE IF tgt[pos].st = "dead"
       THEN /\ ret' = RetErr("cannot wait for ioctl syscall")
            /\ pc' = "idle" /\ pos' = 1
            /\ UNCHANGED <<threads, tgt, status>>
       ELSE /\ pos' = NextPolled(pos)
            /\ UNCHANGED <<threads, tgt, status, ret, pc>>
    /\ UNCHANGED <<restVars, out, lastLabel, contRes, kvm_run>>

\* waitpid_busy, one waitpid(tid, WNOHANG)
WaitpidBusy ==
    /\ pc = "waitpid"
    /\ IF tgt[pos].pending
       THEN /\ status' = StatusOf(tgt, pos)
            /\ threads' = [threads EXCEPT ![pos].is_running = FALSE]
            /\ tgt' = Collect(tgt, pos)
            /\ pc' = "process"
            /\ UNCHANGED <<pos, ret>>
       ELSE IF tgt[pos].st = "dead"
       THEN /\ ret' = RetErr("cannot wait for ioctl syscall")      \* ECHILD
            /\ pc' = "idle" /\ pos' = 1
            /\ UNCHANGED <<threads, tgt, status>>
       ELSE /\ pos' = NextPolled(pos)
            /\ UNCHANGED <<threads, tgt, status, ret, pc>>
    /\ UNCHANGED <<restVars, out, lastLabel, contRes, kvm_run>>

\* wait_for_ioctl from process_status(status) to its return
ProcessStatus ==
    /\ pc = "process"
    /\ LET r == process_status(status, threads, tgt, kvm_run)
       IN  /\ threads' = r.threads
           /\ ret' = r.ret
           /\ IF r.label = "none"
              THEN UNCHANGED <<out, lastLabel>>
              ELSE /\ out' = [tid |-> status.pid, label |-> r.label,
                              stop |-> tgt[status.pid].stop]
                   /\ lastLabel' = [lastLabel EXCEPT ![status.pid] = r.label]
    /\ pc' = "idle" /\ pos' = 1 /\ status' = NoStatus
    /\ UNCHANGED <<restVars, contRes, tgt, kvm_run>>

ContCall ==
    /\ pc = "idle"
    /\ pc' = "cont" /\ pos' = 1
    /\ contRes' = [state |-> "running", issued |-> {}]
    /\ ret' = NoRet /\ out' = NoOut
    /\ UNCHANGED <<restVars, threads, status, lastLabel, tgt, kvm_run>>

\* cont, one turn of: for thread in &self.threads { thread.ptthread.cont(None)?; }
ContThread ==
    /\ pc = "cont"
    /\ IF InPtraceStop(tgt, pos)
       THEN /\ tgt' = Resumed(tgt, pos, "cont")
            /\ pc' = NextIdx(pos, "idle")[1] /\ pos' = NextIdx(pos, "idle")[2]
            /\ contRes' = [state  |-> IF pos < NThreads THEN "running" ELSE "ok",
                           issued |-> contRes.issued \cup {pos}]
       ELSE /\ contRes' = [state |-> "err", issued |-> contRes.issued \cup {pos}]
            /\ pc' = "idle" /\ pos' = 1
            /\ UNCHANGED tgt
    /\ UNCHANGED <<restVars, threads, status, ret, out, lastLabel, kvm_run>>

\* KvmRunWrapper::attach: every thread seized and stopped, Thread::new for each
Attach ==
    /\ threads = [t \in Tids |-> Thread_new]
    /\ pc = "idle" /\ pos = 1
    /\ status = NoStatus /\ ret = NoRet /\ out = NoOut
    /\ lastLabel = [t \in Tids |-> "none"]
    /\ contRes = NoCont
    /\ tgt = [t \in Tids |-> Attached]

\* the same of the state a step leaves
Reattach ==
    /\ threads' = [t \in Tids |-> Thread_new]
    /\ pc' = "idle" /\ pos' = 1
    /\ status' = NoStatus /\ ret' = NoRet /\ out' = NoOut
    /\ lastLabel' = [t \in Tids |-> "none"]
    /\ contRes' = NoCont
    /\ tgt' = [t \in Tids |-> Attached]

ProcOutcomes == [open : BOOLEAN, fds : BOOLEAN, maps : BOOLEAN]

NotCalled == [ok |-> FALSE, err |-> "none"]

\* the KvmRunWrapper attached, no Tracee, no Hypervisor::attach called yet
WrapperOnly == [wrapper |-> TRUE, tracees |-> 0, tracer |-> "wrapper", last |-> "none"]

NoArg == [fn |-> "none"]

NoRes == [state |-> "none"]

\* none of the functions checked on their own is called
NoCall == arg = NoArg /\ res = NoRes

DiscInit ==
    /\ fds \in Listings
    /\ procOk \in ProcOutcomes
    /\ disc = NotCalled
    /\ Attach
    /\ kvm_run = KvmRun(KVM_EXIT_MMIO, KernelMmio)
    /\ NoCall
    /\ trc = WrapperOnly

\* attach calls get_hypervisor(opts.pid)
GetHypervisor ==
    /\ disc = NotCalled
    /\ disc' = get_hypervisor(fds, procOk)
    /\ UNCHANGED <<fds, procOk, icptVars, callVars, trc>>

DiscNext == GetHypervisor

DiscSpec == DiscInit /\ [][DiscNext]_vars

(***************************************************************************)
(* Spec: the interceptor attached to a discovered hypervisor, the caller   *)
(* calling wait_for_ioctl and cont, the target's threads running.          *)
(***************************************************************************)
Init ==
    /\ fds = <<VmName, VcpuName(<<"0">>)>>
    /\ procOk = [open |-> TRUE, fds |-> TRUE, maps |-> TRUE]
    /\ disc = get_hypervisor(fds, procOk)
    /\ Attach
    /\ kvm_run \in {KvmRun(r, KernelMmio) : r \in ExitReasons}
    /\ NoCall
    /\ trc = WrapperOnly

Target ==
    \E t \in Tids : SyscallEnter(t) \/ SyscallExit(t) \/ SignalStop(t) \/ ThreadDie(t)

Next ==
    \/ WaitForIoctlCall
    \/ WaitForIoctlSyscall
    \/ WaitpidBusy
    \/ ProcessStatus
    \/ ContCall
    \/ ContThread
    \/ Target

Spec == Init /\ [][Next]_vars

(***************************************************************************)
(* RunSpec: the caller calls wait_for_ioctl again and again on a target    *)
(* whose threads stay alive, and never cont().  FairSpec: and whatever the *)
(* controller can do next, it does.                                        *)
(***************************************************************************)
WaitForIoctl == WaitForIoctlCall \/ WaitForIoctlSyscall \/ WaitpidBusy \/ ProcessStatus

RunNext ==
    \/ WaitForIoctlCall
    \/ WaitForIoctlSyscall
    \/ WaitpidBusy
    \/ ProcessStatus
    \/ \E t \in Tids : SyscallEnter(t) \/ SyscallExit(t) \/ SignalStop(t)

RunSpec == Init /\ [][RunNext]_vars

FairSpec == RunSpec /\ WF_vars(WaitForIoctl)

(***************************************************************************)
(* TraceeSpec: RunSpec with a controller that, between two calls, drops    *)
(* the KvmRunWrapper or attaches it again, and calls Hypervisor::attach or *)
(* drops a Tracee.  The kernel allows one tracer per thread: a ptrace      *)
(* attach to a thread that has one fails with EPERM.                       *)
(***************************************************************************)
\* inject_syscall::attach(pid): ptrace-attaches to the main thread
inject_syscall_attach(h) == [ok |-> h.tracer = "none"]

\* ptrace::attach_all_threads(pid): the main thread is one of them
attach_all_threads(h) == [ok |-> h.tracer = "none"]

\* Hypervisor::attach, were the Tracee built whatever inject_syscall::attach returned
AttachUnchecked(h) ==
    [h EXCEPT !.tracees = @ + 1, !.tracer = "tracee", !.last = "ok"]

Hypervisor_attach(h) ==
    LET proc == inject_syscall_attach(h)
    IN  IF ~proc.ok
        THEN [h EXCEPT !.last = "cannot attach to hypervisor"]
        ELSE [h EXCEPT !.tracees = @ + 1, !.tracer = "tracee", !.last = "ok"]

\* the controller calls vm.attach()
HypervisorAttach ==
    /\ pc = "idle"
    /\ trc.tracees < MaxTracees
    /\ trc' = Hypervisor_attach(trc)
    /\ UNCHANGED <<discVars, callVars, icptVars>>

\* a Tracee goes out of scope: its Process detaches from the target
TraceeDrop ==
    /\ pc = "idle"
    /\ trc.tracees > 0
    /\ trc' = [trc EXCEPT !.tracees = @ - 1, !.tracer = "none", !.last = "none"]
    /\ UNCHANGED <<discVars, callVars, icptVars>>

\* the KvmRunWrapper goes out of scope: its threads detach, the target runs
WrapperDrop ==
    /\ pc = "idle"
    /\ trc.wrapper
    /\ trc' = [trc EXCEPT !.wrapper = FALSE, !.tracer = "none", !.last = "none"]
    /\ Reattach
    /\ UNCHANGED <<discVars, callVars, kvm_run>>

\* KvmRunWrapper::attach(pid, vcpu_maps)
WrapperAttach ==
    /\ pc = "idle"
    /\ ~trc.wrapper
    /\ IF attach_all_threads(trc).ok
       THEN trc' = [trc EXCEPT !.wrapper = TRUE, !.tracer = "wrapper", !.last = "none"]
       ELSE trc' = [trc EXCEPT !.last = "cannot attach KvmRunWrapper to all threads"]
    /\ Reattach
    /\ UNCHANGED <<discVars, callVars, kvm_run>>

\* wait_for_ioctl is a method of the KvmRunWrapper
WrapperRun == trc.wrapper /\ RunNext

TraceeNext ==
    \/ WrapperRun
    \/ HypervisorAttach
    \/ TraceeDrop
    \/ WrapperDrop
    \/ WrapperAttach

TraceeSpec == Init /\ [][TraceeNext]_vars

(***************************************************************************)
(* EintrSpec: RunSpec with a waitpid that may answer Err(EINTR).           *)
(***************************************************************************)
\* waitpid_busy, one waitpid(tid, WNOHANG) that returns Err(EINTR): try_with!
\* returns the error to wait_for_ioctl, whose ? returns it to the caller
WaitpidEintr ==
    /\ pc = "waitpid"
    /\ ret' = RetErr("cannot wait for ioctl syscall")
    /\ pc' = "idle" /\ pos' = 1
    /\ UNCHANGED <<restVars, threads, tgt, status, out, lastLabel, contRes, kvm_run>>

EintrNext == RunNext \/ WaitpidEintr

EintrSpec == Init /\ [][EintrNext]_vars

(***************************************************************************)
(* StatusSpec: process_status applied to every wait status, for a thread   *)
(* at any stop.                                                            *)
(***************************************************************************)
StopStates ==
    {[Attached EXCEPT !.stop = "enter", !.insys = TRUE, !.sc = sc] : sc \in SyscallKinds}
    \cup {[Attached EXCEPT !.stop = k, !.sc = sc] :
              k \in {"exit", "signal"}, sc \in SyscallKinds \cup {"none"}}
    \cup {[Dead("signaled") EXCEPT !.pending = FALSE]}

StatusInit ==
    /\ fds = <<VmName, VcpuName(<<"0">>)>>
    /\ procOk = [open |-> TRUE, fds |-> TRUE, maps |-> TRUE]
    /\ disc = get_hypervisor(fds, procOk)
    /\ pc = "process" /\ pos = 1
    /\ ret = NoRet /\ out = NoOut /\ contRes = NoCont
    /\ lastLabel = [t \in Tids |-> "none"]
    /\ kvm_run \in {KvmRun(r, KernelMmio) : r \in ExitReasons}
    /\ NoCall
    /\ trc = WrapperOnly
    /\ \E kind \in StatusKinds, pid \in 1..(NThreads + 1) :
          /\ status = WaitStatus(kind, pid)
          /\ \E s \in StopStates :
                tgt = [t \in Tids |-> IF t = pid THEN s ELSE Attached]
          /\ \E ins \in [Tids -> BOOLEAN] :
                threads = [t \in Tids |-> [is_running |-> t # pid, in_syscall |-> ins[t]]]

StatusNext == ProcessStatus

StatusSpec == StatusInit /\ [][StatusNext]_vars

(***************************************************************************)
(* MemSpec: Hypervisor::read::<T> and Hypervisor::write::<T>, for a T of   *)
(* every size up to MaxSize and every answer of process_vm_readv and       *)
(* process_vm_writev.                                                      *)
(***************************************************************************)
\* no hypervisor discovered, no interceptor at work
Unused ==
    /\ fds = <<>>
    /\ procOk = [open |-> TRUE, fds |-> TRUE, maps |-> TRUE]
    /\ disc = NotCalled
    /\ Attach
    /\ kvm_run = KvmRun(KVM_EXIT_MMIO, KernelMmio)
    /\ trc = WrapperOnly

\* process_vm_readv and process_vm_writev answer Err(errno) or Ok(f), f the
\* bytes moved: at most the len of the one local and the one remote iovec
Transfers(len) == {[ok |-> FALSE, f |-> 0]} \cup {[ok |-> TRUE, f |-> n] : n \in 0..len}

\* Ok(t) carries a T whose first `bytes` bytes the transfer wrote
ReadOk(f) == [state |-> "ok", msg |-> "", t |-> [some |-> TRUE, bytes |-> f]]

MemErr(msg) == [state |-> "err", msg |-> msg, t |-> [some |-> FALSE, bytes |-> 0]]

\* Hypervisor::read without the comparison of f and len
ReadAnyCount(len, x) ==
    IF ~x.ok THEN MemErr("cannot read hypervisor memory") ELSE ReadOk(x.f)

Hypervisor_read(len, x) ==
    IF ~x.ok
    THEN MemErr("cannot read hypervisor memory")
    ELSE IF x.f # len
         THEN MemErr("process_vm_readv read {} bytes when {} were expected")
         ELSE ReadOk(x.f)

Hypervisor_write(len, x) ==
    IF ~x.ok
    THEN MemErr("cannot write hypervisor memory")
    ELSE IF x.f # len
         THEN MemErr("process_vm_writev written {} bytes when {} were expected")
         ELSE [state |-> "ok", msg |-> "", t |-> [some |-> FALSE, bytes |-> 0]]

MemArgs ==
    {[fn |-> f, len |-> n, xfer |-> x] :
        f \in {"read", "write"}, n \in 0..MaxSize, x \in Transfers(MaxSize)}

MemInit ==
    /\ Unused
    /\ arg \in {a \in MemArgs : a.xfer \in Transfers(a.len)}
    /\ res = NoRes

HypervisorRead ==
    /\ arg.fn = "read" /\ res = NoRes
    /\ res' = Hypervisor_read(arg.len, arg.xfer)
    /\ UNCHANGED <<discVars, icptVars, trc, arg>>

HypervisorWrite ==
    /\ arg.fn = "write" /\ res = NoRes
    /\ res' = Hypervisor_write(arg.len, arg.xfer)
    /\ UNCHANGED <<discVars, icptVars, trc, arg>>

MemNext == HypervisorRead \/ HypervisorWrite

MemSpec == MemInit /\ [][MemNext]_vars

(***************************************************************************)
(* MmioSpec: MmioRw::from applied to a kvm_run page of any content, and    *)
(* MmioRw::data called on what it decoded.                                 *)
(***************************************************************************)
MmioRaws ==
    [phys_addr : {U64(3072, 0), U64(0, 4096)},
     data      : {DeadBeef, <<1, 2, 3, 4, 5, 6, 7, 8>>},
     len       : 0..MaxMmioLen,
     is_write  : {0, 1, 2}]

MmioInit ==
    /\ fds = <<>>
    /\ procOk = [open |-> TRUE, fds |-> TRUE, maps |-> TRUE]
    /\ disc = NotCalled
    /\ Attach
    /\ kvm_run \in {KvmRun(r, raw) : r \in ExitReasons, raw \in MmioRaws}
    /\ arg = [fn |-> "from"]
    /\ res = NoRes
    /\ trc = WrapperOnly

\* let mmio = MmioRw::from(&kvm_run)
MmioFrom ==
    /\ res = NoRes
    /\ res' = [state |-> "from", mmio |-> MmioRw_from(kvm_run),
               data |-> [panic |-> FALSE, bytes |-> <<>>]]
    /\ UNCHANGED <<discVars, icptVars, trc, arg>>

\* the caller, or Display::fmt of a write, calls mmio.data()
MmioData ==
    /\ res.state = "from" /\ res.mmio.some
    /\ res' = [res EXCEPT !.state = "data", !.data = MmioRw_data(res.mmio.val)]
    /\ UNCHANGED <<discVars, icptVars, trc, arg>>

MmioNext == MmioFrom \/ MmioData

MmioSpec == MmioInit /\ [][MmioNext]_vars

(***************************************************************************)
(* DeviceSpec: Device::new for a Hypervisor with any list of mappings,     *)
(* whatever EventManager::new and Block::new answer.                       *)
(***************************************************************************)
\* x << n for a u64 result, n >= 20
Shl(x, n) == U64(x * 2^(n - 20), 0)

\* a - b on u64, a >= b
U64Sub(a, b) ==
    IF a.lo >= b.lo
    THEN U64(a.hi - b.hi, a.lo - b.lo)
    ELSE U64(a.hi - b.hi - 1, a.lo + 2^20 - b.lo)

FIRST_ADDR_PAST_32BITS == Shl(1, 32)

MEM_32BIT_GAP_SIZE == Shl(768, 20)

\* 0xC000_0000, 3 GiB
ThreeGiB == U64(3072, 0)

MMIO_MEM_START == U64Sub(FIRST_ADDR_PAST_32BITS, MEM_32BIT_GAP_SIZE)

\* MmioRange::new(base, size): Err for an empty range; 0x1000 is 4096
MmioRange_new(base, size) ==
    IF size = 0 THEN [ok |-> FALSE] ELSE [ok |-> TRUE, base |-> base, size |-> size]

\* a Mapping of the target, in pages: [start, end) host-virtual, whether
\* File::open(pathname) succeeds, and phys_addr: a guest address where KVM
\* has registered the region as guest RAM, unset (and read as 0) elsewhere
Mapping(i, len, opens, set, gpa) ==
    [start |-> 16 * i, end |-> 16 * i + len, opens |-> opens,
     phys_set |-> set, phys_addr |-> IF set THEN gpa ELSE 0]

MappingLists ==
    UNION {
        {[i \in 1..n |-> Mapping(i, f[i].len, f[i].opens, f[i].set, f[i].gpa)] :
            f \in [1..n -> [len : 1..2, opens : BOOLEAN, set : BOOLEAN, gpa : 0..MaxGpa]]}
        : n \in 0..MaxMappings}

Panic(msg) == [state |-> "panic", msg |-> msg]

\* GuestRegionMmap::new(MmapRegion::build_raw(start, end - start, ..), GuestAddress(phys_addr))
GuestRegion(mapping) ==
    [guest_base |-> mapping.phys_addr, size |-> mapping.end - mapping.start,
     host |-> mapping.start]

\* the for loop of convert over mappings[i..]
RECURSIVE ConvertFrom(_, _, _)
ConvertFrom(mappings, i, regions) ==
    IF i > Len(mappings) THEN [state |-> "ok", regions |-> regions]
    ELSE IF ~mappings[i].opens THEN Panic("could not open file")
    ELSE ConvertFrom(mappings, i + 1, Append(regions, GuestRegion(mappings[i])))

\* from_arc_regions, were any list of one or more regions taken as it is
FromArcRegionsUnchecked(regions) ==
    IF regions = <<>> THEN [ok |-> FALSE] ELSE [ok |-> TRUE, regions |-> regions]

\* GuestMemoryMmap::from_arc_regions: no region, regions out of order and
\* regions that overlap are errors
from_arc_regions(regions) ==
    IF regions = <<>> THEN [ok |-> FALSE]
    ELSE IF \E k \in 1..(Len(regions) - 1) :
               \/ regions[k].guest_base > regions[k + 1].guest_base
               \/ regions[k].guest_base + regions[k].size - 1 >= regions[k + 1].guest_base
         THEN [ok |-> FALSE]
         ELSE [ok |-> TRUE, regions |-> regions]

convert(mappings) ==
    LET looped == ConvertFrom(mappings, 1, <<>>)
    IN  IF looped.state # "ok" THEN looped
        ELSE LET mem == from_arc_regions(looped.regions)
             IN  IF ~mem.ok THEN Panic("GuestMemoryMmap error")
                 ELSE [state |-> "ok", regions |-> mem.regions]

Device_new(mappings, event_ok, block_ok) ==
    LET mem   == convert(mappings)
        range == MmioRange_new(MMIO_MEM_START, 4096)
    IN  IF mem.state # "ok" THEN [state |-> "panic", msg |-> mem.msg]
        ELSE IF ~range.ok THEN Panic("called Result::unwrap() on an Err value")
        ELSE IF ~event_ok THEN [state |-> "err", msg |-> "cannot create event manager"]
        ELSE IF ~block_ok THEN Panic("cannot create block device")
        ELSE [state |-> "ok", msg |-> "", mem |-> mem.regions,
              mmio_cfg |-> [range |-> [base |-> range.base, size |-> range.size],
                            gsi |-> 5]]

DeviceInit ==
    /\ Unused
    /\ arg \in [fn : {"Device::new"}, mappings : MappingLists,
                 event_ok : BOOLEAN, block_ok : BOOLEAN]
    /\ res = NoRes

\* let device = try_with!(Device::new(&vm), "cannot create vm")
DeviceNew ==
    /\ arg.fn = "Device::new" /\ res = NoRes
    /\ res' = Device_new(arg.mappings, arg.event_ok, arg.block_ok)
    /\ UNCHANGED <<discVars, icptVars, trc, arg>>

DeviceNext == DeviceNew

DeviceSpec == DeviceInit /\ [][DeviceNext]_vars

(***************************************************************************)
(* attach (attach.rs): get_hypervisor, vm.stop(), Device::new, vm.resume(),*)
(* device.create() twice, pause().  res holds how far attach has come:     *)
(* state is the call it is about to make, or "err" / "panic" once it has   *)
(* returned or unwound and "paused" once it blocks in pause(); stopped     *)
(* tells whether the target is stopped by SIGSTOP; calls lists the calls   *)
(* made so far.                                                            *)
(***************************************************************************)
AttachStart == [state |-> "get_hypervisor", stopped |-> FALSE, calls |-> <<>>, msg |-> ""]

AttachFinal == {"err", "panic", "paused"}

AttachStep(to, stopped, call, msg) ==
    [state |-> to, stopped |-> stopped, calls |-> Append(res.calls, call), msg |-> msg]

HasCalled(call) == \E k \in 1..Len(res.calls) : res.calls[k] = call

\* Hypervisor::stop: SIGSTOP to the target; a kill that fails changes nothing
Hypervisor_stop(ok, stopped) == [ok |-> ok, stopped |-> ok \/ stopped]

\* Hypervisor::resume: SIGCONT to the target
Hypervisor_resume(ok, stopped) == [ok |-> ok, stopped |-> ~ok /\ stopped]

AttachListings == {<<>>, <<VmName, VcpuName(<<Digits[1]>>)>>}

AttachMappings == {m \in MappingLists : Len(m) <= 1}

AttachInit ==
    /\ fds \in AttachListings
    /\ procOk \in ProcOutcomes
    /\ disc = NotCalled
    /\ Attach
    /\ kvm_run = KvmRun(KVM_EXIT_MMIO, KernelMmio)
    /\ trc = WrapperOnly
    /\ arg \in [fn : {"attach"}, mappings : AttachMappings, stop_ok : BOOLEAN,
                 event_ok : BOOLEAN, block_ok : BOOLEAN, resume_ok : BOOLEAN]
    /\ res = AttachStart

\* let vm = Arc::new(try_with!(get_hypervisor(opts.pid), "cannot get vms ..."))
AttachGetHypervisor ==
    /\ arg.fn = "attach" /\ res.state = "get_hypervisor"
    /\ disc' = get_hypervisor(fds, procOk)
    /\ res' = IF disc'.ok
              THEN AttachStep("stop", res.stopped, "get_hypervisor", "")
              ELSE AttachStep("err", res.stopped, "get_hypervisor", "cannot get vms for process")
    /\ UNCHANGED <<fds, procOk, icptVars, trc, arg>>

\* vm.stop()?
AttachStop ==
    /\ arg.fn = "attach" /\ res.state = "stop"
    /\ LET r == Hypervisor_stop(arg.stop_ok, res.stopped)
       IN  res' = AttachStep(IF r.ok THEN "Device::new" ELSE "err", r.stopped, "stop", "")
    /\ UNCHANGED <<discVars, icptVars, trc, arg>>

\* let device = try_with!(Device::new(&vm), "cannot create vm")
AttachDeviceNew ==
    /\ arg.fn = "attach" /\ res.state = "Device::new"
    /\ LET d == Device_new(arg.mappings, arg.event_ok, arg.block_ok)
       IN  res' = CASE d.state = "ok"  -> AttachStep("resume", res.stopped, "Device::new", "")
                    [] d.state = "err" ->
                          AttachStep("err", res.stopped, "Device::new", "cannot create vm")
                    [] OTHER -> AttachStep("panic", res.stopped, "Device::new", d.msg)
    /\ UNCHANGED <<discVars, icptVars, trc, arg>>

\* vm.resume()?
AttachResume ==
    /\ arg.fn = "attach" /\ res.state = "resume"
    /\ LET r == Hypervisor_resume(arg.resume_ok, res.stopped)
       IN  res' = AttachStep(IF r.ok THEN "create" ELSE "err", r.stopped, "resume", "")
    /\ UNCHANGED <<discVars, icptVars, trc, arg>>

\* device.create(); device.create();
AttachCreate ==
    /\ arg.fn = "attach" /\ res.state = "create"
    /\ res' = AttachStep(IF HasCalled("create") THEN "pause" ELSE "create",
                         res.stopped, "create", "")
    /\ UNCHANGED <<discVars, icptVars, trc, arg>>

\* nix::unistd::pause()
AttachPause ==
    /\ arg.fn = "attach" /\ res.state = "pause"
    /\ res' = AttachStep("paused", res.stopped, "pause", "")
    /\ UNCHANGED <<discVars, icptVars, trc, arg>>

AttachNext ==
    \/ AttachGetHypervisor
    \/ AttachStop
    \/ AttachDeviceNew
    \/ AttachResume
    \/ AttachCreate
    \/ AttachPause

AttachSpec == AttachInit /\ [][AttachNext]_vars

(***************************************************************************)
(* Tracee::vm_ioctl_with_ref (kvm/mod.rs): mmap a page in the target,      *)
(* write the argument into it, read a kvm_ioeventfd back from it, inject   *)
(* the ioctl.  env holds what the target and the kernel answer: whether    *)
(* the injected mmap succeeds, what process_vm_writev and process_vm_readv *)
(* transfer, what the injected ioctl returns.  The outcome tells the calls *)
(* made (steps), whether a page was mapped, whether it was unmapped again  *)
(* and whether the ioctl was injected.                                     *)
(***************************************************************************)
KvmIoeventfdSize == 64      \* size_of::<kvm_bindings::kvm_ioeventfd>()

ArgSizes == 1..MaxSize \cup {KvmIoeventfdSize}

\* a failed transfer, an empty one, one a byte short and a whole one
TransferCases(len) == {x \in Transfers(len) : ~x.ok \/ x.f \in {0, len - 1, len}}

IoctlEnvs(size) ==
    [mmap_ok : BOOLEAN, wr : TransferCases(size), rd : TransferCases(KvmIoeventfdSize),
     ioctl_ok : BOOLEAN]

VmIoctlDone(state, msg, steps) ==
    [state |-> state, msg |-> msg, steps |-> steps,
     mapped   |-> Len(steps) > 1,             \* the mmap came back Ok
     unmapped |-> FALSE,                      \* the munmap is commented out
     injected |-> steps[Len(steps)] = "ioctl"]

\* vm_ioctl_with_ref, were the result of hypervisor.write not looked at
VmIoctlWithRefWriteUnchecked(size, env) ==
    IF ~env.mmap_ok THEN VmIoctlDone("err", "cannot allocate memory", <<"mmap">>)
    ELSE IF Hypervisor_read(KvmIoeventfdSize, env.rd).state # "ok"
    THEN VmIoctlDone("err", "foobar", <<"mmap", "write", "read">>)
    ELSE VmIoctlDone(IF env.ioctl_ok THEN "ok" ELSE "err", "",
                     <<"mmap", "write", "read", "ioctl">>)

vm_ioctl_with_ref(size, env) ==
    IF ~env.mmap_ok THEN VmIoctlDone("err", "cannot allocate memory", <<"mmap">>)
    ELSE IF Hypervisor_write(size, env.wr).state # "ok"
    THEN VmIoctlDone("err", "cannot write ioctl arg struct to hv", <<"mmap", "write">>)
    ELSE IF Hypervisor_read(KvmIoeventfdSize, env.rd).state # "ok"
    THEN VmIoctlDone("err", "foobar", <<"mmap", "write", "read">>)
    ELSE VmIoctlDone(IF env.ioctl_ok THEN "ok" ELSE "err", "",
                     <<"mmap", "write", "read", "ioctl">>)

\* no call made yet: calls made, calls whose mmap succeeded, argument pages
\* mapped in the target, ioctls injected, and the last call with its answers
IoctlStart ==
    [state |-> "none", calls |-> 0, mmaps |-> 0, pages |-> 0, ioctls |-> 0,
     last |-> [state |-> "none"], env |-> [mmap_ok |-> FALSE]]

NoTracee == [wrapper |-> FALSE, tracees |-> 0, tracer |-> "none", last |-> "none"]

IoctlInit ==
    /\ fds = <<>>
    /\ procOk = [open |-> TRUE, fds |-> TRUE, maps |-> TRUE]
    /\ disc = NotCalled
    /\ Attach
    /\ kvm_run = KvmRun(KVM_EXIT_MMIO, KernelMmio)
    /\ trc = NoTracee
    /\ arg \in [fn : {"vm_ioctl_with_ref"}, size : ArgSizes]
    /\ res = IoctlStart

\* let tracee = vm.attach()
IoctlAttach ==
    /\ arg.fn = "vm_ioctl_with_ref"
    /\ trc.tracees = 0
    /\ trc' = Hypervisor_attach(trc)
    /\ UNCHANGED <<discVars, callVars, icptVars>>

\* tracee.vm_ioctl_with_ref(request, &arg): the Tracee is taken by value and
\* dropped when the call returns
VmIoctlWithRef ==
    /\ arg.fn = "vm_ioctl_with_ref"
    /\ trc.tracees > 0
    /\ res.calls < MaxCalls
    /\ \E env \in IoctlEnvs(arg.size) :
          LET r == vm_ioctl_with_ref(arg.size, env)
          IN  res' = [state  |-> r.state,
                      calls  |-> res.calls + 1,
                      mmaps  |-> res.mmaps + (IF env.mmap_ok THEN 1 ELSE 0),
                      pages  |-> res.pages + (IF r.mapped THEN 1 ELSE 0)
                                           - (IF r.unmapped THEN 1 ELSE 0),
                      ioctls |-> res.ioctls + (IF r.injected THEN 1 ELSE 0),
                      last   |-> r,
                      env    |-> env]
    /\ trc' = [trc EXCEPT !.tracees = @ - 1, !.tracer = "none", !.last = "none"]
    /\ UNCHANGED <<discVars, icptVars, arg>>

IoctlNext == IoctlAttach \/ VmIoctlWithRef

IoctlSpec == IoctlInit /\ [][IoctlNext]_vars

(***************************************************************************)
(* EnvSpec: read_environment over every content of /proc/<pid>/environ of  *)
(* up to MaxEnvLen bytes.                                                  *)
(***************************************************************************)
NUL == "NUL"

EnvBytes == {"A", "B", "=", NUL}

Environs == SeqsUpTo(EnvBytes, MaxEnvLen)

\* the position of the first b in bytes, 0 when there is none
Position(bytes, b) ==
    IF \E i \in 1..Len(bytes) : bytes[i] = b
    THEN CHOOSE i \in 1..Len(bytes) :
            bytes[i] = b /\ \A j \in 1..(i - 1) : bytes[j] # b
    ELSE 0

\* BufRead::split(b'\0'): read_until the delimiter, which is dropped; the
\* last entry needs none, and nothing follows a closing delimiter
RECURSIVE Split(_)
Split(bytes) ==
    IF bytes = <<>> THEN <<>>
    ELSE LET k == Position(bytes, NUL)
         IN  IF k = 0 THEN <<bytes>>
             ELSE <<SubSeq(bytes, 1, k - 1)>> \o Split(SubSeq(bytes, k + 1, Len(bytes)))

\* var.splitn(2, |b| *b == b'='): the whole of var when it has no '='
Splitn2(var) ==
    LET k == Position(var, "=")
    IN  IF k = 0 THEN <<var>>
        ELSE <<SubSeq(var, 1, k - 1), SubSeq(var, k + 1, Len(var))>>

\* the closure of filter_map
EnvTuple(var) ==
    LET tuple == Splitn2(var)
    IN  IF Len(tuple) # 2 THEN None ELSE Some(<<tuple[1], tuple[2]>>)

EmptyMap == [k \in {} |-> <<>>]

\* a HashMap::insert that keeps the value of a key it already holds
InsertIfAbsent(map, k, v) ==
    [x \in DOMAIN map \cup {k} |-> IF x \in DOMAIN map THEN map[x] ELSE v]

\* HashMap::insert
Insert(map, k, v) == [x \in DOMAIN map \cup {k} |-> IF x = k THEN v ELSE map[x]]

\* collect() into a HashMap: the pairs inserted in order
RECURSIVE CollectFrom(_, _, _)
CollectFrom(entries, i, map) ==
    IF i > Len(entries) THEN map
    ELSE LET t == EnvTuple(entries[i])
         IN  CollectFrom(entries, i + 1,
                         IF t.some THEN Insert(map, t.val[1], t.val[2]) ELSE map)

read_environment(open_ok, bytes) ==
    IF ~open_ok THEN [state |-> "err", msg |-> "failed to open {}", env |-> EmptyMap]
    ELSE [state |-> "ok", msg |-> "", env |-> CollectFrom(Split(bytes), 1, EmptyMap)]

EnvInit ==
    /\ Unused
    /\ arg \in [fn : {"read_environment"}, open_ok : BOOLEAN, bytes : Environs]
    /\ res = NoRes

\* Cmd::new calls read_environment(pid)
ReadEnvironment ==
    /\ arg.fn = "read_environment" /\ res = NoRes
    /\ res' = read_environment(arg.open_ok, arg.bytes)
    /\ UNCHANGED <<discVars, icptVars, trc, arg>>

EnvNext == ReadEnvironment

EnvSpec == EnvInit /\ [][EnvNext]_vars

(***************************************************************************)
(* What a listing holds, read off the listing itself.                      *)
(***************************************************************************)
VmLinks(listing) == {i \in 1..Len(listing) : listing[i] = VmName}

VcpuLinks(listing) == {i \in 1..Len(listing) : IsVcpuName(listing[i])}

LinkIdx(listing, i) == ParseUsize(LastPart(listing[i]))

AllIdxParse(listing) == \A i \in VcpuLinks(listing) : LinkIdx(listing, i).ok

SameIdx(listing, i, j) ==
    /\ i \in VcpuLinks(listing) /\ j \in VcpuLinks(listing) /\ i < j
    /\ LinkIdx(listing, i).ok /\ LinkIdx(listing, j).ok
    /\ LinkIdx(listing, i).val = LinkIdx(listing, j).val

\* two vcpu links of one index, anywhere in the listing
HasDuplicateIdx(listing) ==
    \E i, j \in 1..Len(listing) : SameIdx(listing, i, j)

\* two vcpu links of one index with no vcpu link between them
HasAdjacentDuplicateIdx(listing) ==
    \E i, j \in 1..Len(listing) :
        /\ SameIdx(listing, i, j)
        /\ \A k \in VcpuLinks(listing) : ~(i < k /\ k < j)

Called == disc # NotCalled

\* C1: get_hypervisor returns Ok only for a listing with exactly one kvm-vm
\* link and at least one kvm-vcpu link, and then the Hypervisor holds that VM
\* fd and only VCPU fds of the listing; with zero or several VM links, or no
\* VCPU link, it returns Err and no Hypervisor value.
C1_OneVmSomeVcpus ==
    /\ disc.ok =>
        /\ Cardinality(VmLinks(fds)) = 1
        /\ Cardinality(VcpuLinks(fds)) >= 1
        /\ \A i \in VmLinks(fds) : disc.vm_fd = FdNum(i)
        /\ Len(disc.vcpus) >= 1
        /\ \A k \in 1..Len(disc.vcpus) :
              \E i \in VcpuLinks(fds) : disc.vcpus[k].fd_num = FdNum(i)
    /\ (Called /\ (Cardinality(VmLinks(fds)) # 1 \/ VcpuLinks(fds) = {})) =>
        /\ ~disc.ok
        /\ DOMAIN disc = {"ok", "err"}

C1_Witness ==
    /\ disc.ok
    /\ Len(disc.vcpus) = 2
    /\ Len(fds) = MaxFds

\* C2: a listing in which two kvm-vcpu links carry the same index, at any two
\* positions, is rejected, so a successful discovery holds pairwise distinct
\* VCPU indices.
C2_DuplicateIdxRejected ==
    /\ (Called /\ HasDuplicateIdx(fds)) => ~disc.ok
    /\ disc.ok =>
          \A k, l \in 1..Len(disc.vcpus) :
              k # l => disc.vcpus[k].idx # disc.vcpus[l].idx

\* C3 as stated: with two or more kvm-vm fds discovery fails with the
\* "multiple VMs found" error, whatever else the listing holds.
C3_MultiVmMessageAlways ==
    (Called /\ Cardinality(VmLinks(fds)) >= 2 /\ procOk.open /\ procOk.fds /\ procOk.maps
            /\ AllIdxParse(fds))
        => (~disc.ok /\ disc.err = ErrMultiVm)

\* C3 amended: with two or more kvm-vm fds discovery fails; the error is
\* "multiple VMs found" exactly when find_vm_fd and the maps read succeeded,
\* that is unless a /proc read failed, a vcpu index did not parse, or two
\* vcpu links with no vcpu link between them carry the same index (then the
\* error is find_vm_fd's "found multiple vcpus with same id").
C3_MultiVmFails ==
    (Called /\ Cardinality(VmLinks(fds)) >= 2) =>
        /\ ~disc.ok
        /\ (disc.err = ErrMultiVm) <=>
              (/\ procOk.open /\ procOk.fds /\ procOk.maps
               /\ AllIdxParse(fds)
               /\ ~HasAdjacentDuplicateIdx(fds))
        /\ (procOk.open /\ procOk.fds /\ AllIdxParse(fds) /\ HasAdjacentDuplicateIdx(fds))
              => disc.err = ErrSameId

C3_Witness ==
    /\ Called
    /\ Cardinality(VmLinks(fds)) >= 2
    /\ HasAdjacentDuplicateIdx(fds)
    /\ procOk = [open |-> TRUE, fds |-> TRUE, maps |-> TRUE]
    /\ disc.err = ErrSameId

(***************************************************************************)
(* The interceptor's claims.                                               *)
(***************************************************************************)
\* C4: process_status returns Some(MmioRw) only at a stop where in_syscall is
\* false after the toggle; at the syscall-enter stop of KVM_RUN it returns
\* None, also when the kvm_run page still holds KVM_EXIT_MMIO.
C4_MmioOnlyOnExit ==
    /\ (ret.state = "ok" /\ ret.mmio) => ~threads[ret.tid].in_syscall
    /\ (ret.state = "ok" /\ out.label # "none" /\ out.stop = "enter") => ~ret.mmio

\* a label is printed in this step
Printed == out = NoOut /\ out' # NoOut

\* C5: per tid the stops printed as "kvm-run enter" and "kvm-run exit."
\* alternate, starting with enter, and a stop printed as enter is a syscall
\* entry.
C5_EnterExitAlternate ==
    [][Printed =>
          /\ out'.label = "enter" =>
                (lastLabel[out'.tid] # "enter" /\ out'.stop = "enter")
          /\ out'.label = "exit" => lastLabel[out'.tid] = "enter"]_vars

\* the stop thread t is at has been collected and handled, and only
\* PTRACE_SYSCALL has resumed t so far
Settled(t) ==
    /\ tgt[t].st = "stopped" /\ ~tgt[t].pending
    /\ ~(pc = "process" /\ status.pid = t)
    /\ contRes = NoCont

\* C6: in_syscall starts false and is toggled at every syscall-entry and
\* syscall-exit stop, so it is true exactly while the thread is between a
\* syscall entry and its exit.
C6_InSyscallTracksSyscalls ==
    \A t \in Tids : Settled(t) => (threads[t].in_syscall <=> tgt[t].insys)

\* a Stopped status of thread t was collected and process_status has not
\* returned for it
Handling(t) == pc = "process" /\ status.kind = "Stopped" /\ status.pid = t

\* C7: a thread whose stop was collected is not resumed before the handling of
\* that stop has finished: while the stop is handled the thread is not running
\* and not marked running, and a thread is set running again only by
\* PTRACE_SYSCALL in the loop of a later wait_for_ioctl call or by cont().
C7_NotResumedWhileHandled ==
    /\ [](\A t \in Tids : Handling(t) =>
            /\ tgt[t].st # "running" /\ ~threads[t].is_running
            /\ tgt[t].st = "stopped" => ~tgt[t].pending)
    /\ [][\A t \in Tids :
            (tgt[t].st # "running" /\ tgt'[t].st = "running") =>
                /\ ~Handling(t)
                /\ pc \in {"syscall", "cont"}
                /\ pc = "syscall" => (~threads[t].is_running /\ threads'[t].is_running
                                        /\ tgt'[t].how = "syscall")]_vars

C7_Witness ==
    /\ Handling(1)
    /\ tgt[1].stop = "exit" /\ tgt[1].sc = "kvm_run"
    /\ tgt[2].pending

ErrKinds == {"Exited", "Signaled", "PtraceEvent", "PtraceSyscall", "StillAlive"}

\* C8: wait_for_ioctl returns Err and reports no MMIO exit when the status is
\* Exited, Signaled, PtraceEvent, PtraceSyscall or StillAlive, and returns Ok
\* only for Continued and for Stopped of a tracked tid.
C8_FatalStatuses ==
    [][(pc = "process" /\ pc' = "idle") =>
          /\ status.kind \in ErrKinds =>
                (ret'.state = "err" /\ ~ret'.mmio /\ threads' = threads /\ out' = out)
          /\ ret'.state = "ok" =>
                (status.kind = "Continued"
                   \/ (status.kind = "Stopped" /\ status.pid \in Tids))]_vars

C8_Witness ==
    /\ pc = "idle"
    /\ ret.state = "err"
    /\ ret.err = "got unexpected ptrace syscall event"

\* C9: after cont() PTRACE_CONT has been issued to every thread of the
\* wrapper, also when it failed for one of them.
C9_ContResumesAll ==
    contRes.state \in {"ok", "err"} => contRes.issued = Tids

\* C10: under repeated wait_for_ioctl calls every pending stop is eventually
\* collected, whatever the other threads do.
C10_NoStarvation ==
    \A t \in Tids : tgt[t].pending ~> ~tgt[t].pending

(***************************************************************************)
(* C11: Hypervisor::read and Hypervisor::write return Ok only when the     *)
(* transfer moved exactly size_of::<T>() bytes; for every other count f,   *)
(* 0 included, and for a failed transfer, they return Err and read yields  *)
(* no T.                                                                   *)
(***************************************************************************)
C11_PartialTransferIsError ==
    res # NoRes =>
        /\ res.state = "ok" <=> (arg.xfer.ok /\ arg.xfer.f = arg.len)
        /\ res.state # "ok" => res.state = "err" /\ ~res.t.some
        /\ (arg.fn = "read" /\ res.state = "ok") => res.t.some /\ res.t.bytes = arg.len

\* a read of a T of several bytes of which the transfer moved none, and a
\* write that stopped one byte short
C11_Witness ==
    \/ arg.fn = "read" /\ arg.len > 1 /\ arg.xfer.ok /\ arg.xfer.f = 0 /\ res.state = "err"
    \/ arg.fn = "write" /\ arg.xfer.ok /\ arg.xfer.f = arg.len - 1 /\ res.state = "err"

(***************************************************************************)
(* C12: every MmioRw decoded from a kvm_run page has 1 <= len <= 8 and its *)
(* data() returns exactly len bytes without failing; a page whose mmio.len *)
(* is outside 1..8 is reported as an error and yields no MmioRw.           *)
(***************************************************************************)
C12_LenChecked ==
    (res # NoRes /\ res.mmio.some) =>
        /\ res.mmio.val.len \in 1..8
        /\ res.state = "data" =>
              ~res.data.panic /\ Len(res.data.bytes) = res.mmio.val.len

(***************************************************************************)
(* C13: MmioRw::from returns Some exactly when exit_reason is              *)
(* KVM_EXIT_MMIO; then addr is the raw phys_addr, is_write is true iff the *)
(* raw is_write is non-zero, and data() is the first len bytes of the raw  *)
(* data in order, for every len the array holds.                           *)
(***************************************************************************)
C13_FromDecodesMmio ==
    res # NoRes =>
        /\ res.mmio.some <=> kvm_run.exit_reason = KVM_EXIT_MMIO
        /\ res.mmio.some =>
              /\ res.mmio.val.addr = kvm_run.mmio.phys_addr
              /\ res.mmio.val.is_write <=> kvm_run.mmio.is_write # 0
        /\ (res.state = "data" /\ kvm_run.mmio.len <= 8) =>
              /\ ~res.data.panic
              /\ res.data.bytes = [i \in 1..kvm_run.mmio.len |-> kvm_run.mmio.data[i]]

\* the 4-byte guest write of 0xDEADBEEF, read back through data(); and a
\* page whose is_write is neither 0 nor 1
C13_Witness ==
    /\ res.state = "data"
    /\ kvm_run.mmio.data = DeadBeef /\ kvm_run.mmio.len = 4
    /\ kvm_run.mmio.is_write = 2 /\ res.mmio.val.is_write
    /\ res.data.bytes = <<239, 190, 173, 222>>

C15_OnlyMemslotsImported ==
    res # NoRes =>
        LET slots == {i \in 1..Len(arg.mappings) : arg.mappings[i].phys_set}
        IN  /\ res.state = "ok" =>
                  /\ Len(res.mem) = Cardinality(slots)
                  /\ \A k \in 1..Len(res.mem) :
                        \E i \in slots : res.mem[k] = GuestRegion(arg.mappings[i])
            /\ (slots # {} /\ \A i \in slots : arg.mappings[i].opens) =>
                  res.msg # "could not open file"

(***************************************************************************)
(* C17: every Hypervisor a successful discovery returns has VCPU indices   *)
(* that are unique and dense from 0: the idx of its n vcpus are exactly    *)
(* 0 .. n-1.                                                               *)
(***************************************************************************)
C17_VcpuIdxDense ==
    (Called /\ disc.ok) =>
        /\ {disc.vcpus[i].idx : i \in 1..Len(disc.vcpus)} = 0..(Len(disc.vcpus) - 1)
        /\ \A i, j \in 1..Len(disc.vcpus) :
              disc.vcpus[i].idx = disc.vcpus[j].idx => i = j

(***************************************************************************)
(* The entries of a NUL-delimited file, read off its bytes: an entry       *)
(* starts at the first byte and after each NUL, and runs up to the next    *)
(* NUL or the end of the file.                                             *)
(***************************************************************************)
EntryStarts(bytes) ==
    {st \in 1..Len(bytes) : st = 1 \/ bytes[st - 1] = NUL}

EntryAt(bytes, st) ==
    LET stop == IF \E k \in st..Len(bytes) : bytes[k] = NUL
                THEN CHOOSE k \in st..Len(bytes) :
                        bytes[k] = NUL /\ \A j \in st..(k - 1) : bytes[j] # NUL
                ELSE Len(bytes) + 1
    IN  [i \in 1..(stop - st) |-> bytes[st + i - 1]]

HasEq(e) == \E i \in 1..Len(e) : e[i] = "="

FirstEq(e) == CHOOSE i \in 1..Len(e) : e[i] = "=" /\ \A j \in 1..(i - 1) : e[j] # "="

NameOf(e) == [i \in 1..(FirstEq(e) - 1) |-> e[i]]

ValueOf(e) == [i \in 1..(Len(e) - FirstEq(e)) |-> e[FirstEq(e) + i]]

(***************************************************************************)
(* C19: read_environment yields, for every entry of the NUL-delimited      *)
(* environ that contains '=', the pair (bytes before the first '=', all    *)
(* bytes after it); entries without '=' are dropped; of the entries of one *)
(* name the last one's value is kept.                                      *)
(***************************************************************************)
C19_EnvironPairs ==
    (res # NoRes /\ arg.open_ok) =>
        LET pairs == {st \in EntryStarts(arg.bytes) : HasEq(EntryAt(arg.bytes, st))}
        IN  /\ res.state = "ok"
            /\ DOMAIN res.env = {NameOf(EntryAt(arg.bytes, st)) : st \in pairs}
            /\ \A st \in pairs :
                  (\A later \in pairs :
                      later > st =>
                          NameOf(EntryAt(arg.bytes, later)) # NameOf(EntryAt(arg.bytes, st)))
                  => res.env[NameOf(EntryAt(arg.bytes, st))] = ValueOf(EntryAt(arg.bytes, st))

\* A= and A=B in one file: A is B; and the value of A==B is =B
C19_Witness ==
    /\ res # NoRes /\ res.state = "ok"
    /\ \/ arg.bytes = <<"A", "=", NUL, "A", "=", "B">> /\ res.env[<<"A">>] = <<"B">>
       \/ arg.bytes = <<"A", "=", "=", "B">> /\ res.env[<<"A">>] = <<"=", "B">>

(***************************************************************************)
(* A stop of a tracked thread that process_status can read the registers   *)
(* of, and the pages the kvm_run page might hold instead.                  *)
(***************************************************************************)
StopHandled(t) ==
    /\ pc = "process" /\ pc' = "idle"
    /\ status.kind = "Stopped" /\ status.pid = t
    /\ InPtraceStop(tgt, t)

PageNotRead ==
    \A r \in ExitReasons :
        process_status(status, threads, tgt, KvmRun(r, KernelMmio))
            = process_status(status, threads, tgt, kvm_run)

(***************************************************************************)
(* C20, as stated: at a stop for any syscall other than ioctl(KVM_RUN)     *)
(* process_status returns Ok(None), does not read the kvm_run page and     *)
(* leaves in_syscall unchanged; in_syscall changes only at stops of an     *)
(* ioctl whose request is KVM_RUN.                                         *)
(***************************************************************************)
C20_OnlyKvmRunToggles ==
    [][\A t \in Tids :
          /\ (StopHandled(t) /\ tgt[t].sc # "kvm_run") =>
                /\ ret' = RetOk(None, t)
                /\ PageNotRead
                /\ threads' = threads
          /\ threads'[t].in_syscall # threads[t].in_syscall =>
                (StopHandled(t) /\ tgt[t].sc = "kvm_run")]_vars

(***************************************************************************)
(* C20, amended: at a stop for any syscall other than ioctl(KVM_RUN)       *)
(* process_status returns Ok(None) and does not read the kvm_run page; it  *)
(* leaves every thread as it is when the syscall is no ioctl, and toggles  *)
(* the in_syscall of the stopped thread, and nothing else, when it is an   *)
(* ioctl of another request; in_syscall changes only at stops of an ioctl. *)
(***************************************************************************)
C20_EveryIoctlToggles ==
    [][\A t \in Tids :
          /\ (StopHandled(t) /\ tgt[t].sc # "kvm_run") =>
                /\ ret' = RetOk(None, t)
                /\ PageNotRead
                /\ out' = out
                /\ IF tgt[t].sc = "ioctl"
                   THEN threads' = [threads EXCEPT ![t] = toggle_in_syscall(threads[t])]
                   ELSE threads' = threads
          /\ threads'[t].in_syscall # threads[t].in_syscall =>
                (StopHandled(t) /\ tgt[t].sc \in {"kvm_run", "ioctl"})]_vars

\* the entry stop of an ioctl that is not KVM_RUN has been handled
C20_Witness ==
    /\ pc = "idle" /\ ret.state = "ok" /\ ~ret.mmio /\ ret.tid \in Tids
    /\ tgt[ret.tid].stop = "enter" /\ tgt[ret.tid].sc = "ioctl"
    /\ threads[ret.tid].in_syscall
    /\ out = NoOut

(***************************************************************************)
(* C18: an EINTR of waitpid during the poll does not make wait_for_ioctl   *)
(* fail: the poll goes on.  No thread of the target dies here, so EINTR is *)
(* the one error waitpid can answer with.                                  *)
(***************************************************************************)
C18_EintrRetried ==
    [][pc = "waitpid" => (ret'.state # "err" /\ pc' \in {"waitpid", "process"})]_vars

C21_IsRunningMeaning ==
    /\ [](\A t \in Tids :
            threads[t].is_running <=> (tgt[t].st = "running" \/ tgt[t].pending))
    /\ [][\A t \in Tids :
            /\ (~threads[t].is_running /\ threads'[t].is_running) =>
                  /\ pc = "syscall" /\ pos = t
                  /\ InPtraceStop(tgt, t)
                  /\ tgt'[t].st = "running" /\ tgt'[t].how = "syscall"
            /\ (threads[t].is_running /\ ~threads'[t].is_running) =>
                  /\ pc = "waitpid" /\ pos = t
                  /\ status'.kind # "StillAlive" /\ status'.pid = t
                  /\ \A u \in Tids \ {t} : threads'[u] = threads[u]]_vars

\* one thread's stop was collected while the stop of the other is pending
C21_Witness ==
    /\ pc = "process" /\ status.pid = 1
    /\ ~threads[1].is_running /\ ~tgt[1].pending
    /\ threads[2].is_running /\ tgt[2].pending

(***************************************************************************)
(* C25: after every wait_for_ioctl call that returns Ok exactly one thread *)
(* has is_running false, the one whose stop was collected, and every other *)
(* thread has it true; when waitpid_busy starts to poll, every thread has  *)
(* is_running true.                                                        *)
(***************************************************************************)
C25_OneThreadCollected ==
    /\ (pc = "idle" /\ ret.state = "ok") =>
          /\ ret.tid \in Tids
          /\ \A t \in Tids : threads[t].is_running <=> t # ret.tid
    /\ pc = "waitpid" => \A t \in Tids : threads[t].is_running

\* wait_for_ioctl has returned Ok for a stop of thread 2, thread 1 runs on
C25_Witness ==
    /\ pc = "idle" /\ ret.state = "ok" /\ ret.tid = 2
    /\ ~threads[2].is_running /\ threads[1].is_running
    /\ tgt[1].st = "running"

(***************************************************************************)
(* C26: whatever the interleaving of cont() and wait_for_ioctl() calls,    *)
(* wait_for_ioctl issues PTRACE_SYSCALL only to threads in ptrace-stop: a  *)
(* thread that cont() resumed is not sent PTRACE_SYSCALL while it runs.    *)
(***************************************************************************)
C26_SyscallOnlyToStopped ==
    [][(pc = "syscall" /\ (pc' # pc \/ pos' # pos) /\ ~threads[pos].is_running) =>
          tgt[pos].st # "running"]_vars

(***************************************************************************)
(* The guest-physical pages a mapping, or a region, covers.                *)
(***************************************************************************)
GpaOfMapping(mp) == mp.phys_addr..(mp.phys_addr + (mp.end - mp.start) - 1)

GpaOfRegion(rg) == rg.guest_base..(rg.guest_base + rg.size - 1)

C22_OverlapRefused ==
    /\ res # NoRes /\ res.state = "panic" /\ res.msg = "GuestMemoryMmap error"
    /\ Len(arg.mappings) = 2
    /\ GpaOfMapping(arg.mappings[1]) \cap GpaOfMapping(arg.mappings[2]) # {}

(***************************************************************************)
(* C23: in attach every stop() that succeeded is followed by resume()      *)
(* before attach returns or blocks, on every path; the target is not left  *)
(* stopped when Device::new fails.                                         *)
(***************************************************************************)
C23_ResumeOnEveryPath ==
    (arg.fn = "attach" /\ res.state \in AttachFinal /\ HasCalled("stop") /\ arg.stop_ok)
        => HasCalled("resume")

\* the part of C23 that holds: the target is stopped when Device::new starts
C23_StoppedBeforeDeviceNew ==
    (arg.fn = "attach" /\ res.state = "Device::new") => res.stopped

\* attach has returned "cannot create vm" and the target is still stopped
C23_LeftStopped ==
    /\ arg.fn = "attach" /\ res.state = "err" /\ res.msg = "cannot create vm"
    /\ res.stopped /\ ~HasCalled("resume")

(***************************************************************************)
(* C24: vm_ioctl_with_ref injects the ioctl only after the argument page   *)
(* was mapped, the whole argument written and the read-back done: when the *)
(* mmap, the write or the read-back fails it returns Err and injects no    *)
(* ioctl; the page is never unmapped, so the argument pages left in the    *)
(* target are as many as the calls whose mmap succeeded.                   *)
(***************************************************************************)
C24_IoctlAfterArgumentWritten ==
    (arg.fn = "vm_ioctl_with_ref" /\ res.calls > 0) =>
        /\ res.last.injected <=>
              /\ res.env.mmap_ok
              /\ res.env.wr.ok /\ res.env.wr.f = arg.size
              /\ res.env.rd.ok /\ res.env.rd.f = KvmIoeventfdSize
        /\ res.last.injected => res.last.steps = <<"mmap", "write", "read", "ioctl">>
        /\ ~res.last.injected => res.last.state = "err"
        /\ res.pages = res.mmaps
        /\ res.ioctls <= res.mmaps

\* a call that injected its ioctl after one whose write came a byte short
C24_Witness ==
    /\ arg.fn = "vm_ioctl_with_ref" /\ res.calls = 2
    /\ res.last.injected /\ res.last.state = "ok"
    /\ res.ioctls = 1 /\ res.pages = 2 /\ res.mmaps = 2

====
